---- MODULE Spec2Model ----
(***************************************************************************)
(* Model of rebuild-user-service.py: a sequential runner that stops,       *)
(* removes, rebuilds and restarts one docker-compose service, then shows   *)
(* its status and recent logs.                                             *)
(*                                                                         *)
(* The program is one thread.  Its state is the position in main(), the    *)
(* loop index, whether it is blocked inside subprocess.run, and what it    *)
(* has done so far: the lines written to the console, the subprocess.run   *)
(* calls, the sleeps, and the process exit status.  Every call of          *)
(* subprocess.run is split into the part of run_command before the call    *)
(* (the two announcement lines and the call itself) and the part after it  *)
(* (the outcome of the call and everything the program does with it), as   *)
(* the program blocks in between until the external command completes.     *)
(*                                                                         *)
(* The environment chooses the outcome of each subprocess.run call: the    *)
(* child exits with some return code and some captured stdout and stderr,  *)
(* or subprocess.run raises an exception that is not CalledProcessError    *)
(* (OSError when the child cannot be launched, UnicodeDecodeError when     *)
(* text=True cannot decode the captured bytes).  os.chdir, print and       *)
(* time.sleep are taken to return normally.                                *)
(***************************************************************************)
EXTENDS Integers, Sequences, FiniteSets

VARIABLES pc, i, blocked, cwd, console, calls, sleeps, result, history, exitcode

vars == <<pc, i, blocked, cwd, console, calls, sleeps, result, history, exitcode>>

(* ------------------------------ bounds --------------------------------- *)

\* Longest captured stdout or stderr, in lines.
MaxLines == 1

(* ----------------------------- constants ------------------------------- *)

WorkDir == "/home/nut/loyalty-app"

\* The working directory the script is started from (anything else).
StartDir == "/"

Delay == 3

commands_BuildFirst == <<
    [cmd |-> "docker-compose build user-service", desc |-> "Building new user service image"],
    [cmd |-> "docker-compose stop user-service",  desc |-> "Stopping user service"],
    [cmd |-> "docker-compose rm -f user-service", desc |-> "Removing existing container"],
    [cmd |-> "docker-compose up -d user-service", desc |-> "Starting user service"] >>

commands_NoRemove == <<
    [cmd |-> "docker-compose stop user-service",  desc |-> "Stopping user service"],
    [cmd |-> "docker-compose build user-service", desc |-> "Building new user service image"],
    [cmd |-> "docker-compose up -d user-service", desc |-> "Starting user service"] >>

commands == <<
    [cmd |-> "docker-compose stop user-service",  desc |-> "Stopping user service"],
    [cmd |-> "docker-compose rm -f user-service", desc |-> "Removing existing container"],
    [cmd |-> "docker-compose build user-service", desc |-> "Building new user service image"],
    [cmd |-> "docker-compose up -d user-service", desc |-> "Starting user service"] >>

statusStep == [cmd |-> "docker-compose ps user-service", desc |-> "Checking service status"]

logsStep == [cmd |-> "docker-compose logs --tail=10 user-service", desc |-> "Showing recent logs"]

(* --------------------------- the environment --------------------------- *)

\* Return codes of the child: success, plain failure, command not found (as
\* the shell reports it under shell=True), killed by signal 9.
RetCodes == {0, 1, 127, -9}

\* Exceptions of subprocess.run other than CalledProcessError.
OtherErrors == {"OSError", "UnicodeDecodeError"}

TextLines == {"no such image"}

RECURSIVE SeqsUpTo(_, _)
SeqsUpTo(S, n) ==
    IF n = 0 THEN {<<>>}
    ELSE LET shorter == SeqsUpTo(S, n - 1)
         IN  shorter \cup {Append(s, x) : s \in {t \in shorter : Len(t) = n - 1}, x \in S}

\* Captured stdout / stderr texts.
Texts == SeqsUpTo(TextLines, MaxLines)

\* What one subprocess.run call can do.
Outcomes ==
    [kind : {"exit"}, rc : RetCodes, stdout : Texts, stderr : Texts]
    \cup [kind : OtherErrors, rc : {0}, stdout : {<<>>}, stderr : {<<>>}]

NoResult == [kind |-> "none", rc |-> 0, stdout |-> <<>>, stderr |-> <<>>]

(* ------------------------------ printing ------------------------------- *)

\* One printed line: what kind of line, and the values formatted into it.
Line(tag, cmd, rc, text) == [tag |-> tag, cmd |-> cmd, rc |-> rc, text |-> text]

\* str.lower() on the step descriptions.
Lower(desc) ==
    CASE desc = "Stopping user service"           -> "stopping user service"
      [] desc = "Removing existing container"     -> "removing existing container"
      [] desc = "Building new user service image" -> "building new user service image"
      [] desc = "Starting user service"           -> "starting user service"
      [] desc = "Checking service status"         -> "checking service status"
      [] desc = "Showing recent logs"             -> "showing recent logs"

\* Python truthiness of a captured text: "if result.stdout:".
Truthy(text) == text # <<>>

(* ------------------------- run_command (8-24) -------------------------- *)

Announcement_NoCommandText(step) == << Line("Progress", "", 0, <<step.desc>>) >>

\* Lines 10-11: the progress announcement and the literal command text.
Announcement(step) ==
    << Line("Progress", "", 0, <<step.desc>>), Line("Command", step.cmd, 0, <<>>) >>

\* Lines 13-14: the subprocess.run call, with its cwd argument; `at` is the
\* number of lines on the console when the call is made.
Call(step, printed) == [cmd |-> step.cmd, cwd |-> WorkDir, at |-> printed]

\* check=True: CalledProcessError is raised when the return code is non-zero.
CalledProcessError(r) == r.kind = "exit" /\ r.rc # 0

\* What run_command does with the outcome of subprocess.run: returns True
\* (line 17), returns False (line 24, the except clause of line 18), or lets
\* an exception the except clause does not name propagate.
Returned(r) ==
    IF r.kind # "exit" THEN "raised"
    ELSE IF CalledProcessError(r) THEN "False"
    ELSE "True"

SuccessLines_Unconditional(r) == << Line("Output", "", 0, r.stdout) >>

\* Lines 15-16.
SuccessLines(r) ==
    IF Truthy(r.stdout) THEN << Line("Output", "", 0, r.stdout) >> ELSE << >>

FailureLines_NoStderr(cmd, r) ==
    << Line("Error", cmd, r.rc, <<>>) >>
    \o (IF Truthy(r.stdout) THEN << Line("Stdout", "", 0, r.stdout) >> ELSE << >>)

\* Lines 19-23.
FailureLines(cmd, r) ==
    << Line("Error", cmd, r.rc, <<>>) >>
    \o (IF Truthy(r.stdout) THEN << Line("Stdout", "", 0, r.stdout) >> ELSE << >>)
    \o (IF Truthy(r.stderr) THEN << Line("Stderr", "", 0, r.stderr) >> ELSE << >>)

\* Everything run_command prints after subprocess.run has finished.
ResultLines(cmd, r) ==
    CASE Returned(r) = "True"   -> SuccessLines(r)
      [] Returned(r) = "False"  -> FailureLines(cmd, r)
      [] Returned(r) = "raised" -> << >>

\* An exception nobody catches leaves main(): the interpreter prints the
\* traceback and the process ends with status 1.
Traceback(r) == << Line("Traceback", "", 0, <<r.kind>>) >>

\* The first part of run_command, up to the program blocking in subprocess.run.
RunCommandCall(step, header) ==
    /\ console' = console \o header \o Announcement(step)
    /\ calls' = Append(calls, Call(step, Len(console')))
    /\ blocked' = TRUE

\* The record of one finished run_command: the lines from..to of the console
\* are the ones it printed.
Finished(step, r, printed) ==
    [cmd |-> step.cmd, kind |-> r.kind, rc |-> r.rc, ret |-> Returned(r),
     from |-> calls[Len(calls)].at - 1, to |-> printed]

(* ------------------------------ main (26-58) --------------------------- *)

AfterMandatory_NoExit(ret, idx) ==
    IF idx < Len(commands) THEN [pc |-> "loop", i |-> idx + 1, exit |-> {}]
    ELSE [pc |-> "wait", i |-> idx + 1, exit |-> {}]

AfterMandatory_Retry(ret, idx) ==
    IF ret = "raised" THEN [pc |-> "exited", i |-> idx, exit |-> {1}]
    ELSE IF ret = "False" THEN [pc |-> "loop", i |-> idx, exit |-> {}]
    ELSE IF idx < Len(commands) THEN [pc |-> "loop", i |-> idx + 1, exit |-> {}]
    ELSE [pc |-> "wait", i |-> idx + 1, exit |-> {}]

AfterMandatory_PauseOnFailure(ret, idx) ==
    IF ret = "raised" THEN [pc |-> "exited", i |-> idx, exit |-> {1}]
    ELSE IF ret = "False" THEN [pc |-> "paused", i |-> idx, exit |-> {}]
    ELSE IF idx < Len(commands) THEN [pc |-> "loop", i |-> idx + 1, exit |-> {}]
    ELSE [pc |-> "wait", i |-> idx + 1, exit |-> {}]

\* Lines 42-44 and the loop header of line 41: where main goes after
\* run_command returned `ret` for mandatory step idx.
AfterMandatory(ret, idx) ==
    IF ret # "True" THEN [pc |-> "exited", i |-> idx, exit |-> {1}]
    ELSE IF idx < Len(commands) THEN [pc |-> "loop", i |-> idx + 1, exit |-> {}]
    ELSE [pc |-> "wait", i |-> idx + 1, exit |-> {}]

FailedMessage_NotLowered(desc) == << Line("Failed", "", 0, <<desc>>) >>

\* Line 43.
FailedMessage(desc) == << Line("Failed", "", 0, <<Lower(desc)>>) >>

\* Lines 52 and 56: the value run_command returns is dropped; only an
\* exception leaves main.
AfterBestEffort(ret, next) ==
    IF ret = "raised" THEN [pc |-> "exited", exit |-> {1}]
    ELSE [pc |-> next, exit |-> {}]

Init ==
    /\ pc = "main"
    /\ i = 1
    /\ blocked = FALSE
    /\ cwd = StartDir
    /\ console = << >>
    /\ calls = << >>
    /\ sleeps = << >>
    /\ result = NoResult
    /\ history = << >>
    /\ exitcode = {}

Begin_NoChdir ==
    /\ pc = "main"
    /\ console' = console \o << Line("Banner", "", 0, <<>>), Line("Rule", "", 0, <<>>) >>
    /\ pc' = "loop"
    /\ UNCHANGED <<i, blocked, cwd, calls, sleeps, result, history, exitcode>>

\* Lines 27-31: the opening banner and os.chdir.
Begin ==
    /\ pc = "main"
    /\ console' = console \o << Line("Banner", "", 0, <<>>), Line("Rule", "", 0, <<>>) >>
    /\ cwd' = WorkDir
    /\ pc' = "loop"
    /\ UNCHANGED <<i, blocked, calls, sleeps, result, history, exitcode>>

\* Lines 41-42: run_command for mandatory step i, up to subprocess.run.
MandatoryCall ==
    /\ pc = "loop" /\ ~blocked
    /\ RunCommandCall(commands[i], << >>)
    /\ UNCHANGED <<pc, i, cwd, sleeps, result, history, exitcode>>

\* Lines 13-24 and 42-44: subprocess.run finishes for mandatory step i.
MandatoryReturn ==
    /\ pc = "loop" /\ blocked
    /\ \E r \in Outcomes :
         LET step  == commands[i]
             ret   == Returned(r)
             lines == ResultLines(step.cmd, r)
             after == AfterMandatory(ret, i)
         IN  /\ result' = r
             /\ history' = Append(history, Finished(step, r, Len(console) + Len(lines)))
             /\ console' = console \o lines \o
                    (CASE ret = "True"   -> << >>
                       [] ret = "False"  -> FailedMessage(step.desc)
                       [] ret = "raised" -> Traceback(r))
             /\ pc' = after.pc
             /\ i' = after.i
             /\ exitcode' = after.exit
    /\ blocked' = FALSE
    /\ UNCHANGED <<cwd, calls, sleeps>>

\* Lines 47-48.
Wait ==
    /\ pc = "wait"
    /\ console' = Append(console, Line("Waiting", "", 0, <<>>))
    /\ sleeps' = Append(sleeps, [secs |-> Delay, after |-> Len(calls)])
    /\ pc' = "status"
    /\ UNCHANGED <<i, blocked, cwd, calls, result, history, exitcode>>

\* A best-effort step: its header line and run_command up to subprocess.run.
BestEffortCall(at, step, tag) ==
    /\ pc = at /\ ~blocked
    /\ RunCommandCall(step, << Line(tag, "", 0, <<>>) >>)
    /\ UNCHANGED <<pc, i, cwd, sleeps, result, history, exitcode>>

\* A best-effort step: subprocess.run finishes.
BestEffortReturn(at, step, next) ==
    /\ pc = at /\ blocked
    /\ \E r \in Outcomes :
         LET ret   == Returned(r)
             lines == ResultLines(step.cmd, r)
             after == AfterBestEffort(ret, next)
         IN  /\ result' = r
             /\ history' = Append(history, Finished(step, r, Len(console) + Len(lines)))
             /\ console' = console \o lines \o
                    (IF ret = "raised" THEN Traceback(r) ELSE << >>)
             /\ pc' = after.pc
             /\ exitcode' = after.exit
    /\ blocked' = FALSE
    /\ UNCHANGED <<i, cwd, calls, sleeps>>

\* Lines 51-52.
StatusCall == BestEffortCall("status", statusStep, "StatusHeader")

StatusReturn == BestEffortReturn("status", statusStep, "logs")

\* Lines 55-56.
LogsCall == BestEffortCall("logs", logsStep, "LogsHeader")

LogsReturn == BestEffortReturn("logs", logsStep, "banner")

\* Line 58, and main() returning: the process ends with status 0.
Finish ==
    /\ pc = "banner"
    /\ console' = Append(console, Line("Complete", "", 0, <<>>))
    /\ pc' = "exited"
    /\ exitcode' = {0}
    /\ UNCHANGED <<i, blocked, cwd, calls, sleeps, result, history>>

Next ==
    \/ Begin
    \/ MandatoryCall
    \/ MandatoryReturn
    \/ Wait
    \/ StatusCall
    \/ StatusReturn
    \/ LogsCall
    \/ LogsReturn
    \/ Finish

Spec == Init /\ [][Next]_vars

\* The statements of the program itself: everything but the completion of an
\* external command.
OwnStep == Begin \/ MandatoryCall \/ Wait \/ StatusCall \/ LogsCall \/ Finish

\* The interpreter keeps executing the program's own statements (print,
\* os.chdir, time.sleep and the launch of a child all return); nothing is
\* assumed about when, or whether, an external command completes, as
\* subprocess.run is called without a timeout.
ProgSpec == Spec /\ WF_vars(OwnStep)

(* ------------------------------ vocabulary ----------------------------- *)

TypeOK ==
    /\ pc \in {"main", "loop", "wait", "status", "logs", "banner", "exited"}
    /\ i \in 1..(Len(commands) + 1)
    /\ blocked \in BOOLEAN
    /\ cwd \in {StartDir, WorkDir}
    /\ exitcode \in {{}, {0}, {1}}
    /\ Len(history) <= Len(calls)

\* The six external commands in the order the workflow is to issue them.
Order == << "docker-compose stop user-service",
            "docker-compose rm -f user-service",
            "docker-compose build user-service",
            "docker-compose up -d user-service",
            "docker-compose ps user-service",
            "docker-compose logs --tail=10 user-service" >>

Mandatory == 1..4

StatusCmd == Order[5]

LogsCmd == Order[6]

BuildCmd == Order[3]

\* The lower-cased descriptions of the mandatory steps, as they are to appear
\* in the failure message.
LoweredDescription == << "stopping user service",
                         "removing existing container",
                         "building new user service image",
                         "starting user service" >>

Exited == pc = "exited"

\* The commands passed to subprocess.run so far, in order.
Invoked == [k \in 1..Len(calls) |-> calls[k].cmd]

\* How many times cmd was passed to subprocess.run.
Invocations(cmd) == Cardinality({k \in 1..Len(calls) : calls[k].cmd = cmd})

IsPrefix(s, t) == Len(s) <= Len(t) /\ \A k \in 1..Len(s) : s[k] = t[k]

\* Mandatory step k was run and its process exited with status zero / non-zero.
ReturnedZero(k) == Len(history) >= k /\ history[k].kind = "exit" /\ history[k].rc = 0

ReturnedNonZero(k) == Len(history) >= k /\ history[k].kind = "exit" /\ history[k].rc # 0

AllMandatoryZero == \A k \in Mandatory : ReturnedZero(k)

\* The console lines with a given tag.
LinesTagged(tag) == {n \in 1..Len(console) : console[n].tag = tag}

\* The finished run_command number k printed these console lines after its
\* subprocess.run call.
LinesAfterCall(k) == SubSeq(console, calls[k].at + 1, history[k].to)

TagsOf(lines) == {lines[n].tag : n \in 1..Len(lines)}

\* The run_command that finished last; `result` is what its process did.
Last == Len(history)

(* ------------------------------- claims -------------------------------- *)

\* C1: when mandatory step k is the first to return a non-zero status, no
\* mandatory step after k is invoked, the delay is never invoked, neither the
\* status nor the logs step is invoked, and the program has exited with a
\* non-zero status.
C1_FailFast ==
    \A k \in Mandatory :
        ReturnedNonZero(k) =>
            /\ Len(calls) = k
            /\ sleeps = << >>
            /\ Invocations(StatusCmd) = 0
            /\ Invocations(LogsCmd) = 0
            /\ Exited
            /\ exitcode # {} /\ 0 \notin exitcode

C1_Witness ==
    /\ ReturnedZero(1) /\ ReturnedZero(2) /\ ReturnedNonZero(3)
    /\ Exited

\* C2 (as claimed): once all four mandatory steps returned zero, the finished
\* run has slept exactly once, between the start step and the status step,
\* invoked the status step once and the logs step once, and exited with 0.
C2_BestEffortPhaseAlwaysCompletes ==
    (AllMandatoryZero /\ Exited) =>
        /\ Len(sleeps) = 1
        /\ sleeps[1].after = 4
        /\ Invocations(StatusCmd) = 1
        /\ Invocations(LogsCmd) = 1
        /\ exitcode = {0}

\* C3: the commands invoked so far are always a prefix of stop, remove, build,
\* start, status, logs, and a run in which every step succeeded invoked
\* exactly that sequence.
C3_InvocationOrder ==
    /\ IsPrefix(Invoked, Order)
    /\ (Exited /\ \A k \in 1..Len(history) : history[k].ret = "True") => Invoked = Order

C3_Witness ==
    /\ Exited
    /\ Len(history) = 6
    /\ \A k \in 1..6 : history[k].ret = "True"

\* C4 (as claimed): the exit status of a finished run is 0 exactly when all
\* four mandatory steps succeeded and 1 exactly when some mandatory step did
\* not, whatever the status and logs steps did.
C4_ExitStatusFromMandatoryOnly ==
    Exited =>
        LET succeeded == Len(history) >= 4 /\ \A k \in Mandatory : history[k].ret = "True"
            failed    == \E k \in Mandatory : Len(history) >= k /\ history[k].ret # "True"
        IN  /\ exitcode = {0} <=> succeeded
            /\ exitcode = {1} <=> failed

\* C5 (as claimed): when the four mandatory steps succeeded and the status
\* step exited with a non-zero status, the finished run printed the failure,
\* invoked the logs step, printed the completion banner and exited with 0.
C5_StatusFailureNeverHalts ==
    (Exited /\ AllMandatoryZero /\ Len(history) >= 5 /\ history[5].ret = "False") =>
        /\ "Error" \in TagsOf(LinesAfterCall(5))
        /\ Invocations(LogsCmd) = 1
        /\ LinesTagged("Complete") # {}
        /\ exitcode = {0}

\* C6 (as claimed): run_command never lets an exception out: whatever
\* subprocess.run did, run_command returned False, or True when the process
\* exited with status zero.
C6_RunCommandNeverRaises ==
    \A k \in 1..Len(history) :
        /\ history[k].ret \in {"True", "False"}
        /\ history[k].ret = "True" <=> (history[k].kind = "exit" /\ history[k].rc = 0)

\* C7: a successful step prints an Output line exactly when its captured
\* stdout is non-empty, and that line carries the stdout; it prints neither
\* its stderr nor an error indicator.
C7_SuccessEcho ==
    (Last >= 1 /\ history[Last].ret = "True") =>
        LET lines == LinesAfterCall(Last)
        IN  /\ ("Output" \in TagsOf(lines)) <=> (result.stdout # << >>)
            /\ \A n \in 1..Len(lines) : lines[n].tag = "Output" /\ lines[n].text = result.stdout
            /\ Len(lines) <= 1

C7_Witness ==
    /\ Last >= 1 /\ history[Last].ret = "True"
    /\ result.stdout = << >>
    /\ result.stderr # << >>

C9_NoRetry ==
    \A k \in 1..Len(Order) : Invocations(Order[k]) <= 1

C9_Witness ==
    /\ Exited
    /\ Len(calls) = 6
    /\ \E k \in 1..Len(history) : history[k].ret = "False"

C11_Termination == <>Exited \/ <>[]blocked

C11_Witness ==
    /\ Exited
    /\ exitcode = {0}
    /\ Len(history) = 6
    /\ history[5].ret = "False"
    /\ history[6].ret = "False"

\* C12: the working directory is set to the fixed path once, before the first
\* step: it only ever changes from the start directory to the fixed path, and
\* only while no command has been invoked; whenever a command has been
\* invoked the process is in the fixed path, and every command is run with the
\* fixed path as its working directory.
C12_WorkingDirectory ==
    /\ [](/\ calls # << >> => cwd = WorkDir
          /\ \A k \in 1..Len(calls) : calls[k].cwd = "/home/nut/loyalty-app")
    /\ [][cwd' # cwd =>
             (cwd = StartDir /\ cwd' = "/home/nut/loyalty-app" /\ calls = << >>)]_vars

C12_Witness ==
    /\ Len(calls) = 6
    /\ blocked
    /\ cwd = WorkDir

\* C13 (as claimed): the sequence has five mandatory steps followed by two
\* informational steps: the delay comes after the fifth command and a
\* complete run invokes seven commands.
C13_FivePlusTwo ==
    /\ sleeps = << >> => Len(calls) <= 5
    /\ sleeps # << >> => (sleeps[1].after = 5 /\ Len(calls) <= 5 + 2)
    /\ (Exited /\ exitcode = {0}) => Len(calls) = 5 + 2

\* C13 (amended): the sequence has four mandatory steps followed by two
\* informational steps, always in the same order: at most four commands are
\* invoked before the delay, the delay comes after the fourth, at most two
\* follow it, a complete run invokes all six, and the k-th command invoked is
\* always the k-th of the fixed order.
C13_FourPlusTwo ==
    /\ sleeps = << >> => Len(calls) <= 4
    /\ sleeps # << >> => (sleeps[1].after = 4 /\ Len(calls) <= 4 + 2)
    /\ (Exited /\ exitcode = {0}) => Len(calls) = 4 + 2
    /\ \A k \in 1..Len(calls) : k <= Len(Order) /\ calls[k].cmd = Order[k]

C13_Witness ==
    /\ Exited
    /\ exitcode = {0}
    /\ Len(calls) = 6
    /\ sleeps # << >>
    /\ \A k \in 1..Len(history) : history[k].ret = "True"
    /\ result.stdout # << >>

\* C14 (as claimed): in a finished run the completion banner is on the
\* console exactly when all four mandatory steps succeeded, at most once,
\* as the last line, after the logs step has finished.
C14_BannerIffMandatorySucceeded ==
    Exited =>
        LET banner == LinesTagged("Complete")
        IN  /\ banner # {} <=>
                   (Len(history) >= 4 /\ \A k \in Mandatory : history[k].ret = "True")
            /\ Cardinality(banner) <= 1
            /\ \A n \in banner :
                   /\ n = Len(console)
                   /\ Len(history) = 6
                   /\ n > history[6].to

\* The descriptions of the six steps, in the order of the workflow.
Descriptions == << "Stopping user service",
                   "Removing existing container",
                   "Building new user service image",
                   "Starting user service",
                   "Checking service status",
                   "Showing recent logs" >>

\* C15: when a command is invoked, the last two lines on the console are the
\* progress line with its description and the line with its command text; so
\* there are always as many progress lines as invoked commands: six in a run
\* where every step succeeded, k when mandatory step k returned non-zero.
C15_AnnouncedBeforeInvoked ==
    /\ Cardinality(LinesTagged("Progress")) = Len(calls)
    /\ \A k \in 1..Len(calls) :
           /\ calls[k].at >= 2
           /\ console[calls[k].at - 1].tag = "Progress"
           /\ console[calls[k].at - 1].text = << Descriptions[k] >>
           /\ console[calls[k].at].tag = "Command"
           /\ console[calls[k].at].cmd = calls[k].cmd
    /\ (Exited /\ \A k \in 1..Len(history) : history[k].ret = "True") =>
           Cardinality(LinesTagged("Progress")) = 6
    /\ \A k \in Mandatory :
           ReturnedNonZero(k) => Cardinality(LinesTagged("Progress")) = k

C15_Witness ==
    /\ ReturnedNonZero(4)
    /\ Cardinality(LinesTagged("Progress")) = 4

====
